---- MODULE Spec2Model ----
(***************************************************************************)
(* Model of installer.py: a single-threaded script that drives the         *)
(* archinstall library.  One action per statement of the script.  Every    *)
(* library call either returns or raises; the calls made so far are kept   *)
(* in `trace`, one event <<name, argument list, outcome>> per call.        *)
(***************************************************************************)
EXTENDS Naturals, Integers, Sequences, FiniteSets, TLC

VARIABLES
    pc,          \* the statement the script is about to execute
    arguments,   \* archinstall.arguments: a dict, modelled as a function on its keys
    sysinfo,     \* facts of the machine the library reports (SysInfo, accessibility)
    global_menu, \* the GlobalMenu object: enabled and mandatory options, run count
    enable_i,    \* index of the next global_menu.enable statement (lines 29-66)
    user_i,      \* index of the next user of the usermod loop (line 212)
    choice,      \* answer of the chroot yes/no prompt (line 228)
    exc,         \* the exception propagating out of the script, "None" if none
    trace        \* the library calls made so far, in order

vars == <<pc, arguments, sysinfo, global_menu, enable_i, user_i, choice, exc, trace>>

(***************************************************************************)
(* Bounds of the model.                                                    *)
(***************************************************************************)
\* most settings (of the command line, the machine and the menu together)
\* that differ from the defaults in one run; the disk layout with its
\* encryption, the mirror configuration, the package list and the additional
\* repositories each count as one setting
MaxSettings == 1

\* the user names the menu can collect; a '!users' list holds at most as many
\* users as there are names, possibly the same name twice
Usernames == {"alice", "bob"}

\* Python: `except Exception` catches "Exception"; KeyboardInterrupt and
\* SystemExit derive from BaseException only.
ExceptionKinds == {"Exception", "BaseException"}
\* the outcomes of the call inside the try of lines 230-233
Outcomes == {"ok"} \cup ExceptionKinds
\* the outcomes of every other call: no handler of the script surrounds it, so
\* the kind of the exception makes no difference and one kind stands for all
CallOutcomes == {"ok", "Exception"}

(***************************************************************************)
(* Literals of the script.                                                 *)
(***************************************************************************)
install_paru ==
    << "git clone https://aur.archlinux.org/paru.git",
       "cd paru",
       "makepkg -si --noconfirm" >>

\* a slip: the language option is left out
MenuOptionsShort ==
    << [name |-> "mirror_config", mandatory |-> FALSE],
       [name |-> "locale_config", mandatory |-> FALSE],
       [name |-> "disk_config", mandatory |-> TRUE],
       [name |-> "disk_encryption", mandatory |-> FALSE],
       [name |-> "bootloader", mandatory |-> FALSE],
       [name |-> "hostname", mandatory |-> FALSE],
       [name |-> "!root-password", mandatory |-> TRUE],
       [name |-> "!users", mandatory |-> TRUE],
       [name |-> "packages", mandatory |-> FALSE],
       [name |-> "parallel downloads", mandatory |-> FALSE],
       [name |-> "timezone", mandatory |-> FALSE],
       [name |-> "ntp", mandatory |-> FALSE],
       [name |-> "additional-repositories", mandatory |-> FALSE],
       [name |-> "__separator__", mandatory |-> FALSE],
       [name |-> "install", mandatory |-> FALSE],
       [name |-> "save_config", mandatory |-> FALSE],
       [name |-> "abort", mandatory |-> FALSE] >>

\* the global_menu.enable statements of ask_user_questions, in program order
MenuOptions ==
    << [name |-> "archinstall-language", mandatory |-> FALSE],
       [name |-> "mirror_config", mandatory |-> FALSE],
       [name |-> "locale_config", mandatory |-> FALSE],
       [name |-> "disk_config", mandatory |-> TRUE],
       [name |-> "disk_encryption", mandatory |-> FALSE],
       [name |-> "bootloader", mandatory |-> FALSE],
       [name |-> "hostname", mandatory |-> FALSE],
       [name |-> "!root-password", mandatory |-> TRUE],
       [name |-> "!users", mandatory |-> TRUE],
       [name |-> "packages", mandatory |-> FALSE],
       [name |-> "parallel downloads", mandatory |-> FALSE],
       [name |-> "timezone", mandatory |-> FALSE],
       [name |-> "ntp", mandatory |-> FALSE],
       [name |-> "additional-repositories", mandatory |-> FALSE],
       [name |-> "__separator__", mandatory |-> FALSE],
       [name |-> "install", mandatory |-> FALSE],
       [name |-> "save_config", mandatory |-> FALSE],
       [name |-> "abort", mandatory |-> FALSE] >>

\* a slip: the server profile packages are left out
ServerPackagesShort ==
    << "neovim", "git", "curl", "wget", "nmap", "gnu-netcat", "base-devel",
       "openssh", "python", "neofetch", "rust", "nodejs", "yarn", "npm", "go",
       "ufw", "python-pip", "blackarch-keyring" >>

\* the package list of lines 137-166
ServerPackages ==
    << "neovim", "git", "curl", "wget", "nmap", "gnu-netcat", "base-devel",
       "openssh", "python", "neofetch", "rust", "nodejs", "yarn", "npm", "go",
       "ufw", "python-pip", "blackarch-keyring",
       "podman", "nginx", "mariadb", "postgresql", "cockpit",
       "cockpit-machines", "cockpit-podman", "cockpit-pcp", "cockpit-storaged" >>

\* the service list of lines 167-173
ServerServices == << "nginx", "mariadb", "postgresql", "cockpit", "sshd" >>

MariadbCommand ==
    << "mariadb-install-db --user=mysql --basedir=/usr --datadir=/var/lib/mysql" >>

InitdbCommand == << "sudo -u postgres initdb -D /var/lib/postgres/data" >>

\* f'usermod -a -G docker {user.username}'; a user is modelled by its username
UsermodCommand(user) == << "usermod -a -G docker " \o user >>

(***************************************************************************)
(* archinstall.arguments.                                                  *)
(***************************************************************************)
Has(key) == key \in DOMAIN arguments
Get(key, default) == IF Has(key) THEN arguments[key] ELSE default

\* settings given on the command line or in a configuration file
CliSettings == {"silent", "swap", "services", "custom-commands"}
\* facts of the machine
MachineSettings == {"bios", "accessibility"}
\* choices made in the menu that differ from its defaults
MenuSettings ==
    { "pre_mount", "encryption_none", "encryption_luks",
      "mirror_blank", "mirror_regions", "mirror_custom",
      "grub", "hostname", "packages_blank", "packages", "timezone", "ntp",
      "root_password", "testing", "multilib" }

Consistent(S) ==
    /\ ~ {"encryption_none", "encryption_luks"} \subseteq S
    /\ ~ {"packages_blank", "packages"} \subseteq S
    /\ "mirror_blank" \in S => S \cap {"mirror_regions", "mirror_custom"} = {}

\* the setting a choice of the menu belongs to
Setting(c) ==
    CASE c \in {"pre_mount", "encryption_none", "encryption_luks"} -> "disk"
      [] c \in {"mirror_blank", "mirror_regions", "mirror_custom"} -> "mirror_config"
      [] c \in {"packages_blank", "packages"} -> "packages"
      [] c \in {"testing", "multilib"} -> "additional-repositories"
      [] OTHER -> c

SettingsOf(S) == { Setting(c) : c \in S }

\* the choices one run of the menu can make
MenuChoices ==
    { S \in SUBSET MenuSettings :
        /\ Cardinality(S) <= MaxSettings + MaxSettings
        /\ Consistent(S)
        /\ Cardinality(SettingsOf(S)) <= MaxSettings }

UserLists == UNION { [1..n -> Usernames] : n \in 0..Cardinality(Usernames) }

CliArguments(S) ==
    [ key \in S \cap CliSettings |->
        CASE key = "silent" -> TRUE
          [] key = "swap" -> TRUE
          [] key = "services" -> <<"docker">>
          [] key = "custom-commands" -> <<"touch /root/.installed">> ]

MenuKeys(S, withUsers) ==
    {"disk_config", "locale_config", "bootloader"}
        \cup (IF S \cap {"encryption_none", "encryption_luks"} # {}
                THEN {"disk_encryption"} ELSE {})
        \cup (IF S \cap {"mirror_blank", "mirror_regions", "mirror_custom"} # {}
                THEN {"mirror_config"} ELSE {})
        \cup (IF S \cap {"packages_blank", "packages"} # {} THEN {"packages"} ELSE {})
        \cup (IF S \cap {"testing", "multilib"} # {}
                THEN {"additional-repositories"} ELSE {})
        \cup (IF "hostname" \in S THEN {"hostname"} ELSE {})
        \cup (IF "timezone" \in S THEN {"timezone"} ELSE {})
        \cup (IF "ntp" \in S THEN {"ntp"} ELSE {})
        \cup (IF "root_password" \in S THEN {"!root-password"} ELSE {})
        \cup (IF withUsers THEN {"!users"} ELSE {})

\* the values the menu stores under each key
MenuArguments(S, withUsers, users) ==
    [ key \in MenuKeys(S, withUsers) |->
        CASE key = "disk_config" ->
                [config_type |-> IF "pre_mount" \in S THEN "Pre_mount" ELSE "Default"]
          [] key = "locale_config" -> [kb_layout |-> "us"]
          [] key = "bootloader" ->
                IF "grub" \in S THEN "Grub" ELSE "Systemd"
          [] key = "disk_encryption" ->
                [encryption_type |->
                    IF "encryption_luks" \in S THEN "Luks" ELSE "NoEncryption"]
          [] key = "mirror_config" ->
                [mirror_regions |->
                    IF "mirror_regions" \in S THEN <<"Germany">> ELSE <<>>,
                 custom_mirrors |->
                    IF "mirror_custom" \in S THEN <<"http://mirror.local">> ELSE <<>>]
          [] key = "packages" ->
                IF "packages" \in S THEN <<"htop">> ELSE <<"">>
          [] key = "additional-repositories" ->
                (IF "testing" \in S THEN <<"testing">> ELSE <<>>)
                \o (IF "multilib" \in S THEN <<"multilib">> ELSE <<>>)
          [] key = "hostname" -> "blackpeta"
          [] key = "timezone" -> "UTC"
          [] key = "ntp" -> TRUE
          [] key = "!root-password" -> "secret"
          [] key = "!users" -> users ]

Init ==
    /\ pc = "GlobalMenu"
    /\ \E S \in SUBSET (CliSettings \cup MachineSettings) :
         /\ Cardinality(S) <= MaxSettings
         /\ arguments = CliArguments(S)
         /\ sysinfo = S \cap MachineSettings
    /\ global_menu = [enabled |-> {}, mandatory |-> {}, runs |-> 0]
    /\ enable_i = 1
    /\ user_i = 1
    /\ choice = "None"
    /\ exc = "None"
    /\ trace = <<>>

(***************************************************************************)
(* Library calls.  A call returns ("ok") or raises.  An exception raised   *)
(* inside the `with Installer(...)` block of lines 87-233 leaves the block *)
(* through Installer.__exit__, which is handed the exception and lets it   *)
(* propagate; an uncaught exception ends the script.                       *)
(***************************************************************************)
WithBody ==
    { "mount_ordered_layout", "sanity_check", "generate_key_files", "use_mirrors",
      "add_custom_mirrors", "add_blackarch_mirror", "minimal_installation",
      "set_mirrors", "setup_swap", "add_grub", "add_additional_packages",
      "enable_service", "add_bootloader", "copy_iso_network_config", "create_users",
      "add_user_packages", "set_timezone", "activate_time_synchronization",
      "enable_espeakup", "user_set_pw",
      "set_keyboard_language", "enable_user_services", "install_paru",
      "mariadb_install_db", "usermod", "initdb", "custom_commands", "genfstab",
      "info_tips", "chroot_prompt", "drop_to_shell" }

Event(name, arg, outcome) == <<name, arg, outcome>>

\* the exception e leaves the statement at pc
Propagate(tr, e) ==
    /\ trace' = IF pc \in WithBody
                  THEN Append(tr, Event("Installer.__exit__", <<e>>, e))
                  ELSE tr
    /\ pc' = "terminated"
    /\ exc' = e

\* a slip: the failure of a call is ignored and the script goes on
CompleteSwallowing(name, arg, outcome, next) ==
    /\ trace' = Append(trace, Event(name, arg, outcome))
    /\ pc' = next
    /\ exc' = "None"

\* the statement at pc calls `name(arg)`, which ends with `outcome`
Complete(name, arg, outcome, next) ==
    IF outcome = "ok"
      THEN /\ trace' = Append(trace, Event(name, arg, "ok"))
           /\ pc' = next
           /\ exc' = "None"
      ELSE Propagate(Append(trace, Event(name, arg, outcome)), outcome)

Call(name, arg, next) ==
    /\ \E outcome \in CallOutcomes : Complete(name, arg, outcome, next)
    /\ UNCHANGED <<arguments, sysinfo, global_menu, enable_i, user_i, choice>>

\* the condition of an `if` is false: nothing is called
Skip(next) ==
    /\ pc' = next
    /\ UNCHANGED <<arguments, sysinfo, global_menu, enable_i, user_i, choice, exc, trace>>

(***************************************************************************)
(* ask_user_questions, lines 26-68.                                        *)
(***************************************************************************)
GlobalMenu ==
    /\ pc = "GlobalMenu"
    /\ Call("GlobalMenu", <<"archinstall.arguments">>, "enable")

EnableArg(opt) == IF opt.mandatory THEN <<opt.name, "mandatory">> ELSE <<opt.name>>

global_menu_enable ==
    /\ pc = "enable"
    /\ enable_i <= Len(MenuOptions)
    /\ LET opt == MenuOptions[enable_i] IN
       \E outcome \in CallOutcomes :
         /\ Complete("enable", EnableArg(opt), outcome,
                     IF enable_i = Len(MenuOptions) THEN "run" ELSE "enable")
         /\ IF outcome = "ok"
              THEN /\ global_menu' =
                        [global_menu EXCEPT
                           !.enabled = @ \cup {opt.name},
                           !.mandatory = IF opt.mandatory THEN @ \cup {opt.name} ELSE @]
                   /\ enable_i' = enable_i + 1
              ELSE UNCHANGED <<global_menu, enable_i>>
    /\ UNCHANGED <<arguments, sysinfo, user_i, choice>>

\* global_menu.run(): the user's choices are stored in archinstall.arguments
global_menu_run ==
    /\ pc = "run"
    /\ \E outcome \in CallOutcomes :
         /\ Complete("run", <<>>, outcome, "FilesystemHandler")
         /\ IF outcome = "ok"
              THEN /\ global_menu' = [global_menu EXCEPT !.runs = @ + 1]
                   /\ \E S \in MenuChoices, withUsers \in BOOLEAN,
                         users \in UserLists :
                        /\ Cardinality(SettingsOf(S)) + Cardinality(DOMAIN arguments)
                              + Cardinality(sysinfo) <= MaxSettings
                        /\ withUsers \/ users = <<>>
                        /\ arguments' = MenuArguments(S, withUsers, users) @@ arguments
              ELSE UNCHANGED <<global_menu, arguments>>
    /\ UNCHANGED <<sysinfo, enable_i, user_i, choice>>

(***************************************************************************)
(* Module level, lines 238-247.                                            *)
(***************************************************************************)
\* a slip: the handler is built but the filesystem operations are not performed
FilesystemHandlerOnly ==
    /\ pc = "FilesystemHandler"
    /\ Call("FilesystemHandler", <<"disk_config", "disk_encryption">>, "info_start")

FilesystemHandler ==
    /\ pc = "FilesystemHandler"
    /\ Call("FilesystemHandler", <<"disk_config", "disk_encryption">>,
            "perform_filesystem_operations")

perform_filesystem_operations ==
    /\ pc = "perform_filesystem_operations"
    /\ Call("perform_filesystem_operations", <<>>, "info_start")

(***************************************************************************)
(* perform_installation, lines 71-235: the conditions of its `if`s.        *)
(***************************************************************************)
disk_config == arguments["disk_config"]
locale_config == arguments["locale_config"]

\* a slip: the layout type is not looked at
MountAlways == TRUE

\* line 94
ShouldMount == disk_config.config_type # "Pre_mount"

\* lines 99-100
ShouldGenerateKeyFiles ==
    /\ disk_config.config_type # "Pre_mount"
    /\ Has("disk_encryption")
    /\ arguments["disk_encryption"].encryption_type # "NoEncryption"

\* lines 105 and 126: mirror_config := archinstall.arguments.get('mirror_config', None)
MirrorConfigGiven == Has("mirror_config")
\* line 106
ShouldUseMirrors == MirrorConfigGiven /\ arguments["mirror_config"].mirror_regions # <<>>
\* line 108
ShouldAddCustomMirrors ==
    MirrorConfigGiven /\ arguments["mirror_config"].custom_mirrors # <<>>
\* line 129
ShouldSetupSwap == Get("swap", FALSE)
\* line 132; SysInfo.has_uefi() reports the machine's firmware
ShouldAddGrub == Get("bootloader", "None") = "Grub" /\ "bios" \notin sysinfo

\* a slip: the collected users are never read
UsersNever == <<>>

\* lines 180 and 212: the collected users, empty when the key is absent
Users == Get("!users", <<>>)
\* line 183
ShouldAddUserPackages ==
    /\ Get("packages", <<>>) # <<>>
    /\ Get("packages", <<>>)[1] # ""
\* line 186
TimezoneGiven == Has("timezone")
\* line 189
ShouldSyncTime == Get("ntp", FALSE)
\* line 192: archinstall.accessibility_tools_in_use()
AccessibilityInUse == "accessibility" \in sysinfo
\* line 195
RootPasswordGiven == Has("!root-password") /\ arguments["!root-password"] # ""
\* line 204
ServicesGiven == Get("services", <<>>) # <<>>
\* line 219
CustomCommandsGiven == Get("custom-commands", <<>>) # <<>>

\* a slip: the 'silent' argument is not looked at
SilentIgnored == FALSE

\* line 226
Silent == Get("silent", FALSE)

\* a slip: no handler around drop_to_shell
CaughtNever(e) == FALSE

\* line 232: `except Exception` catches e
Caught(e) == e = "Exception"

RepositoryFlag(repo) ==
    IF \E i \in DOMAIN Get("additional-repositories", <<>>) :
           Get("additional-repositories", <<>>)[i] = repo
      THEN repo \o "=True" ELSE repo \o "=False"

(***************************************************************************)
(* perform_installation: the statements.                                   *)
(***************************************************************************)
info_start ==
    /\ pc = "info_start"
    /\ Call("info", <<"Starting installation">>, "Installer")

\* Installer(...) and the entry of the `with` block
Installer ==
    /\ pc = "Installer"
    /\ Call("Installer", <<"/mnt">> \o Get("kernels", <<"linux-hardened">>),
            "mount_ordered_layout")

mount_ordered_layout ==
    /\ pc = "mount_ordered_layout"
    /\ \/ ShouldMount /\ Call("mount_ordered_layout", <<>>, "sanity_check")
       \/ ~ShouldMount /\ Skip("sanity_check")

sanity_check ==
    /\ pc = "sanity_check"
    /\ Call("sanity_check", <<>>, "generate_key_files")

generate_key_files ==
    /\ pc = "generate_key_files"
    /\ \/ ShouldGenerateKeyFiles /\ Call("generate_key_files", <<>>, "use_mirrors")
       \/ ~ShouldGenerateKeyFiles /\ Skip("use_mirrors")

use_mirrors ==
    /\ pc = "use_mirrors"
    /\ \/ /\ ShouldUseMirrors
          /\ Call("use_mirrors", arguments["mirror_config"].mirror_regions,
                  "add_custom_mirrors")
       \/ ~ShouldUseMirrors /\ Skip("add_custom_mirrors")

add_custom_mirrors ==
    /\ pc = "add_custom_mirrors"
    /\ \/ /\ ShouldAddCustomMirrors
          /\ Call("add_custom_mirrors", arguments["mirror_config"].custom_mirrors,
                  "add_blackarch_mirror")
       \/ ~ShouldAddCustomMirrors /\ Skip("add_blackarch_mirror")

\* a slip: the Blackarch mirror is added only when the user configured no mirrors
add_blackarch_mirror_as_fallback ==
    /\ pc = "add_blackarch_mirror"
    /\ \/ /\ ~MirrorConfigGiven
          /\ Call("add_custom_mirrors",
                  <<"Blackarch", "https://www.blackarch.org/blackarch/$repo/os/$arch">>,
                  "minimal_installation")
       \/ MirrorConfigGiven /\ Skip("minimal_installation")

add_blackarch_mirror ==
    /\ pc = "add_blackarch_mirror"
    /\ Call("add_custom_mirrors",
            <<"Blackarch", "https://www.blackarch.org/blackarch/$repo/os/$arch">>,
            "minimal_installation")

minimal_installation ==
    /\ pc = "minimal_installation"
    /\ Call("minimal_installation",
            <<RepositoryFlag("testing"), RepositoryFlag("multilib"),
              Get("hostname", "archlinux"), locale_config.kb_layout>>,
            "set_mirrors")

set_mirrors ==
    /\ pc = "set_mirrors"
    /\ \/ MirrorConfigGiven /\ Call("set_mirrors", <<"mirror_config">>, "setup_swap")
       \/ ~MirrorConfigGiven /\ Skip("setup_swap")

setup_swap ==
    /\ pc = "setup_swap"
    /\ \/ ShouldSetupSwap /\ Call("setup_swap", <<"zram">>, "add_grub")
       \/ ~ShouldSetupSwap /\ Skip("add_grub")

add_grub ==
    /\ pc = "add_grub"
    /\ \/ /\ ShouldAddGrub
          /\ Call("add_additional_packages", <<"grub">>, "add_additional_packages")
       \/ ~ShouldAddGrub /\ Skip("add_additional_packages")

add_additional_packages ==
    /\ pc = "add_additional_packages"
    /\ Call("add_additional_packages", ServerPackages, "enable_service")

enable_service ==
    /\ pc = "enable_service"
    /\ Call("enable_service", ServerServices, "add_bootloader")

add_bootloader ==
    /\ pc = "add_bootloader"
    /\ Call("add_bootloader", <<arguments["bootloader"]>>, "copy_iso_network_config")

copy_iso_network_config ==
    /\ pc = "copy_iso_network_config"
    /\ Call("copy_iso_network_config", <<>>, "create_users")

\* a slip: create_users is called whatever the list holds
create_users_unconditionally ==
    /\ pc = "create_users"
    /\ Call("create_users", Users, "add_user_packages")

create_users ==
    /\ pc = "create_users"
    /\ \/ Users # <<>> /\ Call("create_users", Users, "add_user_packages")
       \/ Users = <<>> /\ Skip("add_user_packages")

add_user_packages ==
    /\ pc = "add_user_packages"
    /\ \/ /\ ShouldAddUserPackages
          /\ Call("add_additional_packages", Get("packages", <<>>), "set_timezone")
       \/ ~ShouldAddUserPackages /\ Skip("set_timezone")

set_timezone ==
    /\ pc = "set_timezone"
    /\ \/ /\ TimezoneGiven
          /\ Call("set_timezone", <<arguments["timezone"]>>,
                  "activate_time_synchronization")
       \/ ~TimezoneGiven /\ Skip("activate_time_synchronization")

activate_time_synchronization ==
    /\ pc = "activate_time_synchronization"
    /\ \/ /\ ShouldSyncTime
          /\ Call("activate_time_synchronization", <<>>, "enable_espeakup")
       \/ ~ShouldSyncTime /\ Skip("enable_espeakup")

enable_espeakup ==
    /\ pc = "enable_espeakup"
    /\ \/ AccessibilityInUse /\ Call("enable_espeakup", <<>>, "user_set_pw")
       \/ ~AccessibilityInUse /\ Skip("user_set_pw")

user_set_pw ==
    /\ pc = "user_set_pw"
    /\ \/ /\ RootPasswordGiven
          /\ Call("user_set_pw", <<"root", arguments["!root-password"]>>,
                  "set_keyboard_language")
       \/ ~RootPasswordGiven /\ Skip("set_keyboard_language")

set_keyboard_language ==
    /\ pc = "set_keyboard_language"
    /\ Call("set_keyboard_language", <<locale_config.kb_layout>>, "enable_user_services")

enable_user_services ==
    /\ pc = "enable_user_services"
    /\ \/ ServicesGiven /\ Call("enable_service", arguments["services"], "install_paru")
       \/ ~ServicesGiven /\ Skip("install_paru")

\* archinstall.run_custom_user_commands(commands, installation)
RunCustomUserCommands(commands, next) ==
    Call("run_custom_user_commands", commands, next)

run_install_paru ==
    /\ pc = "install_paru"
    /\ RunCustomUserCommands(install_paru, "mariadb_install_db")

mariadb_install_db ==
    /\ pc = "mariadb_install_db"
    /\ RunCustomUserCommands(MariadbCommand, "usermod")

\* the loop of lines 212-215
usermod ==
    /\ pc = "usermod"
    /\ \/ /\ user_i <= Len(Users)
          /\ \E outcome \in CallOutcomes :
               /\ Complete("run_custom_user_commands", UsermodCommand(Users[user_i]),
                           outcome, "usermod")
               /\ user_i' = IF outcome = "ok" THEN user_i + 1 ELSE user_i
          /\ UNCHANGED <<arguments, sysinfo, global_menu, enable_i, choice>>
       \/ user_i > Len(Users) /\ Skip("initdb")

initdb ==
    /\ pc = "initdb"
    /\ RunCustomUserCommands(InitdbCommand, "custom_commands")

custom_commands ==
    /\ pc = "custom_commands"
    /\ \/ /\ CustomCommandsGiven
          /\ RunCustomUserCommands(arguments["custom-commands"], "genfstab")
       \/ ~CustomCommandsGiven /\ Skip("genfstab")

genfstab ==
    /\ pc = "genfstab"
    /\ Call("genfstab", <<>>, "info_tips")

info_tips ==
    /\ pc = "info_tips"
    /\ Call("info", <<"For post-installation tips, see the Installation guide">>,
            "chroot_prompt")

\* lines 226-229: the yes/no prompt and the user's answer
chroot_prompt ==
    /\ pc = "chroot_prompt"
    /\ \/ /\ ~Silent
          /\ \E outcome \in CallOutcomes, answer \in {"yes", "no"} :
               /\ Complete("Menu.run", <<"Would you like to chroot?">>, outcome,
                           IF answer = "yes" THEN "drop_to_shell" ELSE "installer_exit")
               /\ choice' = IF outcome = "ok" THEN answer ELSE choice
          /\ UNCHANGED <<arguments, sysinfo, global_menu, enable_i, user_i>>
       \/ Silent /\ Skip("installer_exit")

\* lines 230-233
drop_to_shell ==
    /\ pc = "drop_to_shell"
    /\ \E outcome \in Outcomes :
         IF outcome = "ok" \/ Caught(outcome)
           THEN /\ trace' = Append(trace, Event("drop_to_shell", <<>>, outcome))
                /\ pc' = "installer_exit"
                /\ exc' = "None"
           ELSE Propagate(Append(trace, Event("drop_to_shell", <<>>, outcome)), outcome)
    /\ UNCHANGED <<arguments, sysinfo, global_menu, enable_i, user_i, choice>>

\* the end of the `with` block when no exception propagates
installer_exit ==
    /\ pc = "installer_exit"
    /\ Call("Installer.__exit__", <<"None">>, "debug")

\* line 235
debug ==
    /\ pc = "debug"
    /\ Call("debug", <<"Disk states after installing">>, "terminated")

Next ==
    \/ GlobalMenu
    \/ global_menu_enable
    \/ global_menu_run
    \/ FilesystemHandler
    \/ perform_filesystem_operations
    \/ info_start
    \/ Installer
    \/ mount_ordered_layout
    \/ sanity_check
    \/ generate_key_files
    \/ use_mirrors
    \/ add_custom_mirrors
    \/ add_blackarch_mirror
    \/ minimal_installation
    \/ set_mirrors
    \/ setup_swap
    \/ add_grub
    \/ add_additional_packages
    \/ enable_service
    \/ add_bootloader
    \/ copy_iso_network_config
    \/ create_users
    \/ add_user_packages
    \/ set_timezone
    \/ activate_time_synchronization
    \/ enable_espeakup
    \/ user_set_pw
    \/ set_keyboard_language
    \/ enable_user_services
    \/ run_install_paru
    \/ mariadb_install_db
    \/ usermod
    \/ initdb
    \/ custom_commands
    \/ genfstab
    \/ info_tips
    \/ chroot_prompt
    \/ drop_to_shell
    \/ installer_exit
    \/ debug

Spec == Init /\ [][Next]_vars

(***************************************************************************)
(* Reading the trace.                                                      *)
(***************************************************************************)
Calls(name) == { i \in DOMAIN trace : trace[i][1] = name }
CallsWith(name, arg) == { i \in Calls(name) : trace[i][2] = arg }
Returned(i) == trace[i][3] = "ok"
\* the call itself raised (the __exit__ of a propagating exception only passes it on)
Raised(i) ==
    /\ trace[i][3] # "ok"
    /\ ~(trace[i][1] = "Installer.__exit__" /\ trace[i][2] # <<"None">>)
ReturnedBefore(name, i) == \E j \in Calls(name) : j < i /\ Returned(j)
Terminated == pc = "terminated"

ConfigurationCalls == {"GlobalMenu", "enable", "run"}
FilesystemCalls == {"FilesystemHandler", "perform_filesystem_operations"}
Phase(i) ==
    IF trace[i][1] \in ConfigurationCalls THEN 1
    ELSE IF trace[i][1] \in FilesystemCalls THEN 2 ELSE 3

\* C1: configuration capture (the menu up to run()) comes first, then
\* perform_filesystem_operations, then the Installer and the installation
\* steps: the phases never interleave, run() has returned before any later
\* call, and perform_filesystem_operations has returned before the Installer
\* is entered or any installation step is invoked.
C1_TwoOrderedPhases ==
    LET ran == { j \in Calls("run") : Returned(j) }
        prepared == { j \in Calls("perform_filesystem_operations") : Returned(j) }
    IN  \A i \in DOMAIN trace :
          /\ i > 1 => Phase(i - 1) <= Phase(i)
          /\ Phase(i) > 1 => \E j \in ran : j < i
          /\ Phase(i) = 3 => \E j \in prepared : j < i

C1_Witness ==
    /\ Terminated
    /\ exc = "None"
    /\ Calls("run") # {}
    /\ Calls("perform_filesystem_operations") # {}
    /\ Calls("minimal_installation") # {}
    /\ Calls("genfstab") # {}

DropRaised(kinds) == \E i \in Calls("drop_to_shell") : trace[i][3] \in kinds
OnlyDropRaised == \A i \in DOMAIN trace : Raised(i) => trace[i][1] = "drop_to_shell"
NormalCompletion ==
    /\ exc = "None"
    /\ \E i \in CallsWith("Installer.__exit__", <<"None">>) : Returned(i)
    /\ \E i \in Calls("debug") : Returned(i)

\* C2 as stated: whatever exception drop_to_shell raises, it is swallowed: the
\* Installer context is left with no exception propagating, the debug step is
\* reached and the run ends in normal completion.
C2_AnyExceptionSwallowed ==
    (Terminated /\ DropRaised(ExceptionKinds) /\ OnlyDropRaised) => NormalCompletion

\* C2 amended: an exception of drop_to_shell that derives from Exception is
\* swallowed and the run completes normally; one that does not (BaseException
\* only: KeyboardInterrupt, SystemExit) propagates and ends the script in error.
C2_ExceptionSwallowed ==
    /\ (Terminated /\ DropRaised({"Exception"}) /\ OnlyDropRaised) => NormalCompletion
    /\ DropRaised({"BaseException"}) =>
          /\ Terminated
          /\ exc = "BaseException"
          /\ Calls("debug") = {}

C2_Witness ==
    /\ Terminated
    /\ DropRaised({"Exception"})
    /\ OnlyDropRaised
    /\ NormalCompletion

\* C3: when a library call other than drop_to_shell raises, the script ends
\* with that exception: the failed call is the last call of the script (only
\* the Installer's __exit__, handed the exception, may follow it), so no later
\* step runs, the call is not retried and no earlier step is invoked again.
C3_FailureTerminates ==
    \A i \in DOMAIN trace :
      (Raised(i) /\ trace[i][1] # "drop_to_shell") =>
         /\ Terminated
         /\ exc = trace[i][3]
         /\ \/ i = Len(trace)
            \/ /\ i + 1 = Len(trace)
               /\ trace[i + 1] = Event("Installer.__exit__", <<exc>>, exc)

C3_Witness ==
    /\ Terminated
    /\ \E i \in Calls("minimal_installation") : Raised(i) /\ i + 1 = Len(trace)
    /\ Calls("mount_ordered_layout") # {}

PromptOptions ==
    { "disk_config", "mirror_config", "locale_config", "disk_encryption", "bootloader",
      "hostname", "!root-password", "!users", "packages", "parallel downloads",
      "timezone", "ntp", "additional-repositories" }
MenuEntries == {"archinstall-language", "__separator__", "install", "save_config", "abort"}
\* C4 as stated: the options enabled when the menu is run are exactly disk,
\* mirrors, locale, encryption, bootloader, hostname, root password, users,
\* packages, parallel downloads, timezone, NTP and additional repositories.
C4_ExactlyThePromptOptions ==
    Calls("run") # {} => global_menu.enabled = PromptOptions

\* C4 amended: the menu is run with exactly the thirteen options of the claim
\* and, besides them, archinstall-language, __separator__, install,
\* save_config and abort enabled; disk, root password and users are the
\* mandatory ones; every enable precedes the run, and run() is invoked once,
\* right after the last enable.
C4_EnabledOptions ==
    LET runs == Calls("run")
        enables == Calls("enable")
    IN  /\ Cardinality(runs) <= 1
        /\ global_menu.runs <= 1
        /\ \A r \in runs :
             /\ \A e \in enables : e < r /\ Returned(e)
             /\ trace[r - 1][1] = "enable"
             /\ { trace[e][2][1] : e \in enables } = PromptOptions \cup MenuEntries
             /\ Cardinality(enables) = Cardinality(PromptOptions \cup MenuEntries)
             /\ global_menu.enabled = PromptOptions \cup MenuEntries
             /\ global_menu.mandatory = {"disk_config", "!root-password", "!users"}
             /\ { trace[e][2][1] : e \in { x \in enables : Len(trace[x][2]) = 2 } }
                    = {"disk_config", "!root-password", "!users"}

C4_Witness ==
    /\ \E r \in Calls("run") : Returned(r)
    /\ Cardinality(Calls("enable")) = 18
    /\ pc = "FilesystemHandler"

IsServerPackages(i) ==
    /\ trace[i][1] = "add_additional_packages"
    /\ Len(trace[i][2]) = 27
    /\ trace[i][2][1] = "neovim"
    /\ trace[i][2][27] = "cockpit-storaged"
IsServerServices(i) ==
    /\ trace[i][1] = "enable_service"
    /\ trace[i][2] = <<"nginx", "mariadb", "postgresql", "cockpit", "sshd">>

\* C5: the 27 literal packages (neovim ... cockpit-storaged) are passed to
\* add_additional_packages at most once and the literal services nginx,
\* mariadb, postgresql, cockpit, sshd to enable_service at most once; a run
\* that reaches add_bootloader has made both calls, the services right after
\* the packages, both after minimal_installation returned, whatever the
\* configuration is.
C5_LiteralPackagesAndServices ==
    LET packages == { i \in DOMAIN trace : IsServerPackages(i) }
        services == { i \in DOMAIN trace : IsServerServices(i) }
        minimal == { i \in Calls("minimal_installation") : Returned(i) }
    IN  /\ Cardinality(packages) <= 1
        /\ Cardinality(services) <= 1
        /\ \A p \in packages : \E m \in minimal : m < p
        /\ \A v \in services : \E p \in packages : v = p + 1 /\ Returned(p)
        /\ \A b \in Calls("add_bootloader") :
             \E v \in services : v + 1 = b /\ Returned(v)

C5_Witness ==
    /\ \E b \in Calls("add_bootloader") : IsServerServices(b - 1) /\ IsServerPackages(b - 2)
    /\ Has("services")
    /\ Terminated
    /\ exc = "None"

RECURSIVE CommandsFrom(_)
\* the commands passed to run_custom_user_commands from call i on, in order
CommandsFrom(i) ==
    IF i > Len(trace) THEN <<>>
    ELSE (IF trace[i][1] = "run_custom_user_commands" THEN trace[i][2] ELSE <<>>)
         \o CommandsFrom(i + 1)

LiteralCommands ==
    << "git clone https://aur.archlinux.org/paru.git", "cd paru", "makepkg -si --noconfirm",
       "mariadb-install-db --user=mysql --basedir=/usr --datadir=/var/lib/mysql" >>

CollectedUsers == IF "!users" \in DOMAIN arguments THEN arguments["!users"] ELSE <<>>
CollectedCommands ==
    IF "custom-commands" \in DOMAIN arguments THEN arguments["custom-commands"] ELSE <<>>

\* C6 as stated: the commands run in the installed root are the same fixed
\* list for every configuration (the one a run without users and without
\* custom commands executes).
C6_FixedCommandList ==
    Calls("genfstab") # {} =>
        CommandsFrom(1) = LiteralCommands \o <<"sudo -u postgres initdb -D /var/lib/postgres/data">>

\* C6 amended: the commands run in the installed root are the literal paru
\* and mariadb commands, then one computed `usermod -a -G docker <username>`
\* per collected user, then the literal initdb command, then the user's
\* custom-commands if any: the list depends on the configuration through
\* '!users' and 'custom-commands' only.
C6_CommandList ==
    Calls("genfstab") # {} =>
        CommandsFrom(1) =
            LiteralCommands
            \o [k \in 1..Len(CollectedUsers) |-> "usermod -a -G docker " \o CollectedUsers[k]]
            \o <<"sudo -u postgres initdb -D /var/lib/postgres/data">>
            \o CollectedCommands

C6_Witness ==
    /\ Calls("genfstab") # {}
    /\ Len(CollectedUsers) = 2
    /\ CollectedUsers[1] # CollectedUsers[2]
    /\ Len(CommandsFrom(1)) = 7

PromptCalls == Calls("Menu.run")
ShellCalls == Calls("drop_to_shell")
\* the script is past the decision of lines 226-229
ShellDecided ==
    \/ pc \in {"installer_exit", "debug"}
    \/ ShellCalls # {}
    \/ CallsWith("Installer.__exit__", <<"None">>) # {}
InstallationCalls ==
    { "run_custom_user_commands", "add_additional_packages", "enable_service",
      "genfstab", "minimal_installation", "create_users" }

\* C7: the chroot prompt is shown iff 'silent' is not set; drop_to_shell is
\* invoked iff the prompt was shown and answered yes, at most once, and only
\* after genfstab returned, with no command, package or service step after it.
C7_ShellIsOptionalAndLast ==
    LET silent == IF "silent" \in DOMAIN arguments THEN arguments["silent"] ELSE FALSE
    IN  /\ Cardinality(PromptCalls) <= 1
        /\ Cardinality(ShellCalls) <= 1
        /\ \A p \in PromptCalls : ~silent /\ ReturnedBefore("genfstab", p)
        /\ \A d \in ShellCalls :
             /\ \E p \in PromptCalls : p < d /\ Returned(p) /\ choice = "yes"
             /\ ReturnedBefore("genfstab", d)
             /\ \A j \in DOMAIN trace : j > d => trace[j][1] \notin InstallationCalls
        /\ ShellDecided =>
             /\ PromptCalls # {} <=> ~silent
             /\ ShellCalls # {} <=> (PromptCalls # {} /\ choice = "yes")

C7_Witness ==
    /\ Terminated
    /\ \E d \in ShellCalls : Returned(d)
    /\ exc = "None"

C7_WitnessSilent ==
    /\ Terminated
    /\ exc = "None"
    /\ Has("silent")
    /\ PromptCalls = {}

IsBlackarch(i) == trace[i][1] = "add_custom_mirrors" /\ trace[i][2][1] = "Blackarch"
BlackarchCalls == { i \in DOMAIN trace : IsBlackarch(i) }

\* C8: with a Pre_mount layout neither mount_ordered_layout nor
\* generate_key_files is invoked; otherwise mount_ordered_layout is invoked
\* once, before sanity_check, and generate_key_files once, after sanity_check
\* and before minimal_installation, iff a disk encryption is configured whose
\* type is not NoEncryption.  sanity_check is invoked once for every layout
\* (in every run that gets as far as the mirrors).
C8_MountAndKeyFiles ==
    LET mounts == Calls("mount_ordered_layout")
        checks == Calls("sanity_check")
        keys == Calls("generate_key_files")
        pre_mount == arguments["disk_config"].config_type = "Pre_mount"
        encrypted ==
            /\ "disk_encryption" \in DOMAIN arguments
            /\ arguments["disk_encryption"].encryption_type # "NoEncryption"
    IN  /\ Cardinality(mounts) <= 1
        /\ Cardinality(checks) <= 1
        /\ Cardinality(keys) <= 1
        /\ checks # {} =>
             /\ pre_mount => mounts = {} /\ keys = {}
             /\ ~pre_mount => \E m \in mounts : Returned(m) /\ \A c \in checks : m < c
        /\ \A m \in mounts : ~pre_mount
        /\ \A k \in keys :
             /\ ~pre_mount /\ encrypted
             /\ \E c \in checks : c < k /\ Returned(c)
             /\ \A j \in Calls("minimal_installation") : k < j
        /\ BlackarchCalls # {} =>
             /\ Cardinality(checks) = 1
             /\ keys # {} <=> (~pre_mount /\ encrypted)

C8_WitnessPreMount ==
    /\ Has("disk_config")
    /\ disk_config.config_type = "Pre_mount"
    /\ Has("disk_encryption")
    /\ arguments["disk_encryption"].encryption_type = "Luks"
    /\ Calls("minimal_installation") # {}
    /\ Calls("sanity_check") # {}

C8_Witness ==
    /\ \E k \in Calls("generate_key_files") : Returned(k)
    /\ Calls("mount_ordered_layout") # {}
    /\ Calls("minimal_installation") # {}

\* C9: the Blackarch mirror is added once in every run that reaches
\* minimal_installation, with or without a mirror configuration, after the
\* user's use_mirrors / add_custom_mirrors calls; use_mirrors is invoked only
\* for a mirror_config with regions, add_custom_mirrors with the user's
\* mirrors only for one with custom mirrors, and set_mirrors iff mirror_config
\* is present, after minimal_installation returned.
C9_Mirrors ==
    LET given == "mirror_config" \in DOMAIN arguments
        used == Calls("use_mirrors")
        custom == Calls("add_custom_mirrors") \ BlackarchCalls
        set == Calls("set_mirrors")
        minimal == Calls("minimal_installation")
    IN  /\ Cardinality(BlackarchCalls) <= 1
        /\ Cardinality(used) <= 1 /\ Cardinality(custom) <= 1 /\ Cardinality(set) <= 1
        /\ \A m \in minimal : \E b \in BlackarchCalls : b < m /\ Returned(b)
        /\ \A u \in used \cup custom : \A b \in BlackarchCalls : u < b
        /\ \A u \in used :
             /\ given
             /\ arguments["mirror_config"].mirror_regions # <<>>
             /\ trace[u][2] = arguments["mirror_config"].mirror_regions
        /\ \A c \in custom :
             /\ given
             /\ arguments["mirror_config"].custom_mirrors # <<>>
             /\ trace[c][2] = arguments["mirror_config"].custom_mirrors
        /\ \A x \in set : given /\ \E m \in minimal : m < x /\ Returned(m)
        /\ (\E i \in DOMAIN trace : IsServerPackages(i)) => (set # {} <=> given)

C9_Witness ==
    /\ Calls("use_mirrors") # {}
    /\ Cardinality(Calls("add_custom_mirrors")) = 2
    /\ Calls("set_mirrors") # {}
    /\ Terminated

C9_WitnessNoMirrors ==
    /\ Terminated
    /\ ~Has("mirror_config")
    /\ BlackarchCalls # {}
    /\ Calls("add_bootloader") # {}

IsUsermod(i) ==
    /\ trace[i][1] = "run_custom_user_commands"
    /\ \E u \in Usernames : trace[i][2] = <<"usermod -a -G docker " \o u>>
IsCommand(i, command) ==
    trace[i][1] = "run_custom_user_commands" /\ trace[i][2] = <<command>>

\* C10: create_users is invoked, with the collected '!users' list, before any
\* usermod command; one `usermod -a -G docker <username>` is run per listed
\* user, in list order, all after the mariadb-install-db command and before
\* the initdb command; with an empty or absent list create_users is not
\* invoked and no usermod command is run.
C10_UsersAndUsermod ==
    LET users == CollectedUsers
        created == Calls("create_users")
        usermods == { i \in DOMAIN trace : IsUsermod(i) }
        mariadb ==
            { i \in DOMAIN trace :
                IsCommand(i, "mariadb-install-db --user=mysql --basedir=/usr --datadir=/var/lib/mysql") }
        initdbs ==
            { i \in DOMAIN trace :
                IsCommand(i, "sudo -u postgres initdb -D /var/lib/postgres/data") }
    IN  /\ Cardinality(created) <= 1
        /\ \A c \in created : users # <<>> /\ trace[c][2] = users
        /\ users = <<>> => created = {} /\ usermods = {}
        /\ \A i \in usermods :
             /\ \E c \in created : c < i /\ Returned(c)
             /\ \E m \in mariadb :
                  /\ Returned(m)
                  /\ m < i /\ i - m <= Len(users)
                  /\ trace[i][2] = <<"usermod -a -G docker " \o users[i - m]>>
                  /\ \A j \in m..i : Returned(j) \/ j = i
             /\ \A x \in initdbs : i < x
        /\ \A x \in initdbs :
             /\ Cardinality(usermods) = Len(users)
             /\ \E m \in mariadb : x = m + Len(users) + 1

C10_Witness ==
    /\ Calls("genfstab") # {}
    /\ Len(CollectedUsers) = 2
    /\ CollectedUsers[1] # CollectedUsers[2]
    /\ Cardinality({ i \in DOMAIN trace : IsUsermod(i) }) = 2
    /\ Calls("create_users") # {}
====
